---------------------------- MODULE Spec2Model ----------------------------
(***************************************************************************)
(* A model of fnplot: the scalarization of arbitrary values                *)
(* (Values.Scalar / writeBinary), the concurrent sample set                *)
(* (ValuesSet.Insert / ValuesSet.PointsOn) and the axis transforms.        *)
(*                                                                         *)
(* Numbers that do not fit a model-checker integer (64-bit ints, the       *)
(* big.Int read from a byte buffer) are kept as big-endian sequences of    *)
(* base-256 digits, which is also how the program holds them.              *)
(***************************************************************************)
EXTENDS Integers, Sequences, FiniteSets, TLC

VARIABLES
    ios,        \* ValuesSet.ios: the stored ioPairs
    minInput,   \* ValuesSet.minInput (Nil or a big.Float)
    maxInput,   \* ValuesSet.maxInput
    minOutput,  \* ValuesSet.minOutput
    maxOutput,  \* ValuesSet.maxOutput
    mu,         \* ValuesSet.mu: [w |-> writer or 0, r |-> set of readers]
    wk,         \* each Insert caller: its position, arguments and locals
    calls,      \* the driver's counters: Insert calls started, returned nil,
                \* returned an error
    pl,         \* the PointsOn caller: position, axes, loop index, points
    sv,         \* the Values under conversion (scalar specification)
    sres,       \* the result of Values.Scalar on sv
    lax,        \* the axis under projection (axis specification)
    lpt         \* the last Point call on lax: its argument and result

vars == <<ios, minInput, maxInput, minOutput, maxOutput, mu, wk, calls, pl, sv, sres,
          lax, lpt>>

setVars == <<ios, minInput, maxInput, minOutput, maxOutput, mu, wk, calls, pl>>

-----------------------------------------------------------------------------
(* Base-256 naturals: big-endian digit sequences.                          *)

RECURSIVE StripZeros(_)
StripZeros(bs) ==
    IF bs = <<>> THEN <<>>
    ELSE IF bs[1] = 0 THEN StripZeros(Tail(bs))
    ELSE bs

RECURSIVE CmpLex(_, _)
CmpLex(a, b) ==
    IF a = <<>> THEN 0
    ELSE IF a[1] < b[1] THEN -1
    ELSE IF a[1] > b[1] THEN 1
    ELSE CmpLex(Tail(a), Tail(b))

\* Compare two naturals given as digit sequences (leading zeros allowed).
CmpNat(a, b) ==
    LET x == StripZeros(a)
        y == StripZeros(b)
    IN  IF Len(x) < Len(y) THEN -1
        ELSE IF Len(x) > Len(y) THEN 1
        ELSE CmpLex(x, y)

\* The digits of a small natural.
RECURSIVE NatBytes(_)
NatBytes(n) == IF n = 0 THEN <<>> ELSE Append(NatBytes(n \div 256), n % 256)

\* The value of a short digit sequence (at most three digits are ever asked).
RECURSIVE BytesNat(_)
BytesNat(bs) ==
    IF bs = <<>> THEN 0
    ELSE BytesNat(SubSeq(bs, 1, Len(bs) - 1)) * 256 + bs[Len(bs)]

RECURSIVE Pow2(_)
Pow2(n) == IF n = 0 THEN 1 ELSE 2 * Pow2(n - 1)

RECURSIVE Log2(_)
Log2(n) == IF n <= 1 THEN 0 ELSE 1 + Log2(n \div 2)

-----------------------------------------------------------------------------
(* Values: the reflect.Value of each element, by its Kind.                 *)
(*   invalid                 the zero reflect.Value (a nil interface)      *)
(*   uint8 .. int64          fixed-width integers, img: their big-endian   *)
(*                           two's-complement image (1, 2, 4 or 8 bytes)   *)
(*   int, uint               platform-width (64-bit) integers, img: 8 bytes*)
(*   bool                    b: 0 or 1                                     *)
(*   string                  bs: its bytes                                 *)
(*   slice                   elems: its elements ([]byte is a slice of     *)
(*                           uint8)                                        *)
(*   map                     entries: <<key, value>> pairs in the order    *)
(*                           MapKeys hands them out                        *)
(*   float32, float64        class finite/inf/nan, neg, units: the         *)
(*                           magnitude in 1/256ths                         *)
(*   ptr                     elem: the pointee (invalid for a nil pointer) *)
(*   func                    a value binary.Write cannot encode            *)

InvalidValue == [kind |-> "invalid"]

U8(b) == [kind |-> "uint8", img |-> <<b>>]

RuneV(b1, b2, b3, b4) == [kind |-> "int32", img |-> <<b1, b2, b3, b4>>]

StrV(bs) == [kind |-> "string", bs |-> bs]

SliceV(es) == [kind |-> "slice", elems |-> es]

MapV(es) == [kind |-> "map", entries |-> es]

IntV(img) == [kind |-> "int", img |-> img]

UintV(img) == [kind |-> "uint", img |-> img]

F64(neg, units) == [kind |-> "float64", class |-> "finite", neg |-> neg, units |-> units]

F32(neg, units) == [kind |-> "float32", class |-> "finite", neg |-> neg, units |-> units]

F64Inf(neg) == [kind |-> "float64", class |-> "inf", neg |-> neg, units |-> 0]

F64NaN == [kind |-> "float64", class |-> "nan", neg |-> FALSE, units |-> 0]

PtrV(v) == [kind |-> "ptr", elem |-> v]

FuncV == [kind |-> "func"]

\* The 8-byte image of a small natural.
RECURSIVE PadTo(_, _)
PadTo(bs, w) == IF Len(bs) >= w THEN bs ELSE PadTo(<<0>> \o bs, w)

I64(n) == PadTo(NatBytes(n), 8)

\* The 8-byte two's-complement image of -n, n a small positive natural.
NegI64(n) == [i \in 1..8 |-> 255 - I64(n - 1)[i]]

-----------------------------------------------------------------------------
(* math constants, as 64-bit images.                                       *)

MaxUint8 == I64(255)

MaxUint16 == I64(65535)

MaxUint32 == <<0, 0, 0, 0, 255, 255, 255, 255>>

MaxInt8 == I64(127)

MinInt8 == NegI64(128)

MaxInt16 == I64(32767)

MinInt16 == NegI64(32768)

MaxInt32 == <<0, 0, 0, 0, 127, 255, 255, 255>>

MinInt32 == <<255, 255, 255, 255, 128, 0, 0, 0>>

\* x <= y on uint (64-bit unsigned images).
LeqUint(x, y) == CmpNat(x, y) <= 0

\* The sign of an int image.
IsNegInt(x) == x[1] >= 128

\* x <= y on int (64-bit two's-complement images).
LeqInt(x, y) ==
    IF IsNegInt(x) # IsNegInt(y) THEN IsNegInt(x)
    ELSE CmpNat(x, y) <= 0

\* A Go integer conversion to a width of w bytes keeps the low w bytes.
ConvertTo(kind, w, x) == [kind |-> kind, img |-> SubSeq(x, Len(x) - w + 1, Len(x))]

smallestUintTrunc(x) ==
    IF LeqUint(x, MaxUint16) THEN ConvertTo("uint8", 1, x)
    ELSE IF LeqUint(x, MaxUint32) THEN ConvertTo("uint16", 2, x)
    ELSE ConvertTo("uint32", 4, x)

smallestUint(x) ==
    IF LeqUint(x, MaxUint8) THEN ConvertTo("uint8", 1, x)
    ELSE IF LeqUint(x, MaxUint16) THEN ConvertTo("uint16", 2, x)
    ELSE IF LeqUint(x, MaxUint32) THEN ConvertTo("uint32", 4, x)
    ELSE ConvertTo("uint64", 8, x)

smallestInt(x) ==
    IF ~IsNegInt(x) THEN smallestUint(x)
    ELSE IF LeqInt(x, MaxInt8) /\ LeqInt(MinInt8, x) THEN ConvertTo("int8", 1, x)
    ELSE IF LeqInt(x, MaxInt16) /\ LeqInt(MinInt16, x) THEN ConvertTo("int16", 2, x)
    ELSE IF LeqInt(x, MaxInt32) /\ LeqInt(MinInt32, x) THEN ConvertTo("int32", 4, x)
    ELSE ConvertTo("int64", 8, x)

-----------------------------------------------------------------------------
(* bytes.Buffer writes and encoding/binary.                                *)

RuneError == <<239, 191, 189>>

\* utf8.AppendRune for a code point 0 <= r < 2^24.
EncodeRune(r) ==
    IF r < 128 THEN <<r>>
    ELSE IF r < 2048 THEN <<192 + (r \div 64), 128 + (r % 64)>>
    ELSE IF r >= 55296 /\ r <= 57343 THEN RuneError
    ELSE IF r < 65536
        THEN <<224 + (r \div 4096), 128 + ((r \div 64) % 64), 128 + (r % 64)>>
    ELSE IF r <= 1114111
        THEN <<240 + (r \div 262144), 128 + ((r \div 4096) % 64),
               128 + ((r \div 64) % 64), 128 + (r % 64)>>
    ELSE RuneError

WriteRuneFixed(img) == img

\* bytes.Buffer.WriteRune on an int32 image: a negative rune or one of 2^24
\* and more is out of range and written as utf8.RuneError.
WriteRune(img) ==
    IF img[1] # 0 THEN RuneError
    ELSE EncodeRune(BytesNat(Tail(img)))

SignBit(neg) == IF neg THEN 128 ELSE 0

\* math.Float64bits, big-endian, of a float of at most 21 significant bits.
Float64bits(v) ==
    IF v.class = "nan" THEN <<127, 248, 0, 0, 0, 0, 0, 1>>
    ELSE IF v.class = "inf" THEN <<SignBit(v.neg) + 127, 240, 0, 0, 0, 0, 0, 0>>
    ELSE IF v.units = 0 THEN <<SignBit(v.neg), 0, 0, 0, 0, 0, 0, 0>>
    ELSE LET k == Log2(v.units)
             e == k - 8 + 1023
             frac == (v.units - Pow2(k)) * Pow2(20 - k)
         IN  <<SignBit(v.neg) + (e \div 16), (e % 16) * 16 + (frac \div 65536),
               (frac \div 256) % 256, frac % 256, 0, 0, 0, 0>>

\* math.Float32bits, big-endian.
Float32bits(v) ==
    IF v.class = "nan" THEN <<127, 192, 0, 0>>
    ELSE IF v.class = "inf" THEN <<SignBit(v.neg) + 127, 128, 0, 0>>
    ELSE IF v.units = 0 THEN <<SignBit(v.neg), 0, 0, 0>>
    ELSE LET k == Log2(v.units)
             e == k - 8 + 127
             frac == (v.units - Pow2(k)) * Pow2(23 - k)
         IN  <<SignBit(v.neg) + (e \div 2), (e % 2) * 128 + (frac \div 65536),
               (frac \div 256) % 256, frac % 256>>

FixedKinds == {"uint8", "uint16", "uint32", "uint64", "int8", "int16", "int32", "int64"}

WriteOk(buf) == [buf |-> buf, err |-> "nil"]

WriteErr(buf, e) == [buf |-> buf, err |-> e]

\* binary.Write(buf, binary.BigEndian, data): fixed-size data only.
binaryWrite(buf, data) ==
    IF data.kind \in FixedKinds THEN WriteOk(buf \o data.img)
    ELSE IF data.kind = "bool" THEN WriteOk(buf \o <<data.b>>)
    ELSE IF data.kind = "float64" THEN WriteOk(buf \o Float64bits(data))
    ELSE IF data.kind = "float32" THEN WriteOk(buf \o Float32bits(data))
    ELSE WriteErr(buf, "error")

RECURSIVE indirect(_)
indirect(v) == IF v.kind = "ptr" THEN indirect(v.elem) ELSE v

RECURSIVE writeBinary(_, _)
RECURSIVE writeValid(_, _)
RECURSIVE writeElems(_, _)
RECURSIVE writeEntries(_, _)

\* A loop over the elements of a slice, an array or a Values: stop at the
\* first error.
writeElems(buf, elems) ==
    IF elems = <<>> THEN WriteOk(buf)
    ELSE LET w == writeBinary(buf, elems[1])
         IN  IF w.err # "nil" THEN w ELSE writeElems(w.buf, Tail(elems))

\* The loop over a map's keys: the key, then its value.
writeEntries(buf, entries) ==
    IF entries = <<>> THEN WriteOk(buf)
    ELSE LET k == writeBinary(buf, entries[1][1])
         IN  IF k.err # "nil" THEN k
             ELSE LET v == writeBinary(k.buf, entries[1][2])
                  IN  IF v.err # "nil" THEN v
                      ELSE writeEntries(v.buf, Tail(entries))

\* writeBinary past its IsValid check. value.Type() of the zero Value that
\* indirect makes of a nil pointer panics.
writeValid(buf, value0) ==
    LET value == indirect(value0)
    IN  IF value.kind = "invalid" THEN WriteErr(buf, "panic")
        ELSE IF value.kind \in {"slice", "array"} THEN writeElems(buf, value.elems)
        ELSE IF value.kind = "map" THEN writeEntries(buf, value.entries)
        ELSE IF value.kind = "uint8" THEN WriteOk(buf \o value.img)
        ELSE IF value.kind = "int32" THEN WriteOk(buf \o WriteRune(value.img))
        ELSE IF value.kind = "string" THEN WriteOk(buf \o value.bs)
        ELSE IF value.kind = "int" THEN binaryWrite(buf, smallestInt(value.img))
        ELSE IF value.kind = "uint" THEN binaryWrite(buf, smallestUint(value.img))
        ELSE binaryWrite(buf, value)

writeBinaryUnchecked(buf, value0) == writeValid(buf, value0)

writeBinary(buf, value0) ==
    IF value0.kind = "invalid" THEN WriteOk(buf)
    ELSE writeValid(buf, value0)

-----------------------------------------------------------------------------
(* big.Float: form finite/inf, neg, int: the digits of the integer part,   *)
(* frac: the fractional part in 1/256ths.                                  *)

NoFloat == [form |-> "none", neg |-> FALSE, int |-> <<>>, frac |-> 0]

ZeroFloat == [form |-> "finite", neg |-> FALSE, int |-> <<>>, frac |-> 0]

ScalarOk(f) == [err |-> "nil", val |-> f]

ScalarErr(e) == [err |-> e, val |-> NoFloat]

\* big.NewInt(0).SetBytes(buf): buf read as a big-endian unsigned integer.
SetBytes(buf) == StripZeros(buf)

\* big.NewFloat(0).SetInt(x)
SetInt(x) == [form |-> "finite", neg |-> FALSE, int |-> x, frac |-> 0]

\* big.NewFloat(value.Float()): exact; panics (ErrNaN) on a NaN.
NewFloat(v) ==
    IF v.class = "nan" THEN ScalarErr("panic")
    ELSE IF v.class = "inf"
        THEN ScalarOk([form |-> "inf", neg |-> v.neg, int |-> <<>>, frac |-> 0])
    ELSE ScalarOk([form |-> "finite", neg |-> v.neg,
                   int |-> NatBytes(v.units \div 256), frac |-> v.units % 256])

IsFloatKind(v) == v.kind \in {"float32", "float64"}

\* Values.Scalar
Scalar(vs) ==
    IF Len(vs) = 0 THEN ScalarOk(ZeroFloat)
    ELSE IF Len(vs) = 1 /\ vs[1].kind = "invalid" THEN ScalarOk(ZeroFloat)
    ELSE IF Len(vs) = 1 /\ IsFloatKind(indirect(vs[1])) THEN NewFloat(indirect(vs[1]))
    ELSE LET w == writeElems(<<>>, vs)
         IN  IF w.err # "nil" THEN ScalarErr(w.err)
             ELSE ScalarOk(SetInt(SetBytes(w.buf)))

-----------------------------------------------------------------------------
(* big.Float comparison.                                                   *)

IsZero(x) == x.form = "finite" /\ x.int = <<>> /\ x.frac = 0

Sgn(x) == IF IsZero(x) THEN 0 ELSE IF x.neg THEN -1 ELSE 1

CmpMag(x, y) ==
    IF x.form = "inf" /\ y.form = "inf" THEN 0
    ELSE IF x.form = "inf" THEN 1
    ELSE IF y.form = "inf" THEN -1
    ELSE LET c == CmpNat(x.int, y.int)
         IN  IF c # 0 THEN c
             ELSE IF x.frac < y.frac THEN -1
             ELSE IF x.frac > y.frac THEN 1
             ELSE 0

\* x.Cmp(y): -1, 0 or 1.
Cmp(x, y) ==
    IF Sgn(x) < Sgn(y) THEN -1
    ELSE IF Sgn(x) > Sgn(y) THEN 1
    ELSE IF Sgn(x) = 0 THEN 0
    ELSE IF Sgn(x) = 1 THEN CmpMag(x, y)
    ELSE 0 - CmpMag(x, y)

-----------------------------------------------------------------------------
(* float64 coordinates and the ratio of a scaled axis: form finite/inf,    *)
(* neg, and the magnitude num/den in lowest terms, den a power of two.     *)

\* The mantissa width Quo and Mul round to (53 bits or more in the program).
ModelPrec == 6

RECURSIVE Reduce(_, _)
Reduce(num, den) ==
    IF num = 0 THEN [num |-> 0, den |-> 1]
    ELSE IF den > 1 /\ num % 2 = 0 THEN Reduce(num \div 2, den \div 2)
    ELSE [num |-> num, den |-> den]

Fin(neg, num, den) ==
    LET r == Reduce(num, den)
    IN  [form |-> "finite", neg |-> neg /\ num # 0, num |-> r.num, den |-> r.den]

Inf(neg) == [form |-> "inf", neg |-> neg, num |-> 0, den |-> 1]

NoRatio == [form |-> "none", neg |-> FALSE, num |-> 0, den |-> 1]

\* The binary exponent e with 2^(ModelPrec-1) <= (num/den) / 2^e < 2^ModelPrec.
RECURSIVE ExpOf(_, _, _)
ExpOf(num, den, e) ==
    IF num >= den * Pow2(ModelPrec) THEN ExpOf(num, den * 2, e + 1)
    ELSE IF num < den * Pow2(ModelPrec - 1) THEN ExpOf(num * 2, den, e - 1)
    ELSE e

\* num/den > 0 rounded to ModelPrec bits, to nearest, ties to even.
Round(neg, num, den) ==
    LET e == ExpOf(num, den, 0)
        n == IF e < 0 THEN num * Pow2(0 - e) ELSE num
        d == IF e > 0 THEN den * Pow2(e) ELSE den
        q == n \div d
        r == n % d
        m == IF 2 * r > d \/ (2 * r = d /\ q % 2 = 1) THEN q + 1 ELSE q
    IN  IF e >= 0 THEN Fin(neg, m * Pow2(e), 1) ELSE Fin(neg, m, Pow2(0 - e))

\* The magnitude of a (small) big.Float scalar, in 1/256ths.
Units(f) == BytesNat(f.int) * 256 + f.frac

FloatOk(v) == [err |-> "nil", val |-> v]

FloatPanic == [err |-> "panic", val |-> NoRatio]

\* big.NewFloat(0).Quo(big.NewFloat(max), v), max a whole number.
Quo(max, v) ==
    IF v.form = "none" THEN FloatPanic
    ELSE IF v.form = "inf" THEN FloatOk(Fin(v.neg, 0, 1))
    ELSE IF IsZero(v) THEN (IF max = 0 THEN FloatPanic ELSE FloatOk(Inf(v.neg)))
    ELSE IF max = 0 THEN FloatOk(Fin(v.neg, 0, 1))
    ELSE FloatOk(Round(v.neg, max * 256, Units(v)))

\* big.NewFloat(0).Mul(p, ratio).Float64()
Mul(p, ratio) ==
    IF ratio.form = "none" THEN FloatPanic
    ELSE IF p.form = "inf" \/ ratio.form = "inf"
        THEN (IF IsZero(p) \/ (ratio.form = "finite" /\ ratio.num = 0)
                THEN FloatPanic
                ELSE FloatOk(Inf(p.neg # ratio.neg)))
    ELSE IF IsZero(p) \/ ratio.num = 0 THEN FloatOk(Fin(FALSE, 0, 1))
    ELSE FloatOk(Round(p.neg # ratio.neg, Units(p) * ratio.num, 256 * ratio.den))

\* p.Float64()
Float64(p) ==
    IF p.form = "inf" THEN Inf(p.neg) ELSE Fin(p.neg, Units(p), 256)

\* a < b on float64.
LessF(a, b) ==
    LET sa == IF a.neg THEN -1 ELSE 1
        sb == IF b.neg THEN -1 ELSE 1
    IN  IF a.form = "inf" /\ b.form = "inf" THEN a.neg /\ ~b.neg
        ELSE IF a.form = "inf" THEN a.neg
        ELSE IF b.form = "inf" THEN ~b.neg
        ELSE sa * a.num * b.den < sb * b.num * a.den

-----------------------------------------------------------------------------
(* The axes.                                                               *)

IsOriginNever(p) == FALSE

\* p.Cmp(big.NewFloat(0)) == 0
IsOrigin(p) == Cmp(p, ZeroFloat) = 0

\* The natural logarithm of 2, in 1/256ths.
Ln2Units == 177

\* bigfloat.Log(z): panics on a nil or negative z, -Inf at 0, 0 at 1, +Inf at
\* +Inf; elsewhere ln 2 times the binary logarithm, the latter taken exactly
\* at the powers of two and linearly between them, rounded to ModelPrec bits.
Log(z) ==
    IF z.form = "none" THEN FloatPanic
    ELSE IF Sgn(z) = -1 THEN FloatPanic
    ELSE IF IsZero(z) THEN FloatOk(Inf(TRUE))
    ELSE IF z.form = "inf" THEN FloatOk(Inf(FALSE))
    ELSE LET u == Units(z)
             k == Log2(u)
             n == (k - 8) * Pow2(k) + (u - Pow2(k))
         IN  IF n = 0 THEN FloatOk(Fin(FALSE, 0, 1))
             ELSE IF n < 0 THEN FloatOk(Round(TRUE, (0 - n) * Ln2Units, Pow2(k) * 256))
             ELSE FloatOk(Round(FALSE, n * Ln2Units, Pow2(k) * 256))

\* big.NewFloat(0).Quo(big.NewFloat(max), l), l the result of bigfloat.Log.
QuoLog(max, l) ==
    IF l.err # "nil" THEN FloatPanic
    ELSE IF l.val.form = "inf" THEN FloatOk(Fin(FALSE, 0, 1))
    ELSE IF l.val.num = 0 THEN (IF max = 0 THEN FloatPanic ELSE FloatOk(Inf(FALSE)))
    ELSE IF max = 0 THEN FloatOk(Fin(FALSE, 0, 1))
    ELSE FloatOk(Round(l.val.neg, max * l.val.den, l.val.num))

\* big.NewFloat(0).Mul(l, ratio).Float64(), l the result of bigfloat.Log.
MulLog(l, ratio) ==
    IF l.err # "nil" \/ ratio.form = "none" THEN FloatPanic
    ELSE IF l.val.form = "inf" \/ ratio.form = "inf"
        THEN (IF (l.val.form = "finite" /\ l.val.num = 0)
                    \/ (ratio.form = "finite" /\ ratio.num = 0)
                THEN FloatPanic
                ELSE FloatOk(Inf(l.val.neg # ratio.neg)))
    ELSE IF l.val.num = 0 \/ ratio.num = 0 THEN FloatOk(Fin(FALSE, 0, 1))
    ELSE FloatOk(Round(l.val.neg # ratio.neg, l.val.num * ratio.num,
                       l.val.den * ratio.den))

StdAxis == [kind |-> "Std", Max |-> 0, ratio |-> NoRatio]

ScaledAxis(max) == [kind |-> "Scaled", Max |-> max, ratio |-> NoRatio]

LnAxis == [kind |-> "Ln", Max |-> 0, ratio |-> NoRatio]

LnScaledAxis(max) == [kind |-> "LnScaled", Max |-> max, ratio |-> NoRatio]

\* Axis.SetMaxValue: the axis afterwards, or a panic.
SetMaxValue(axis, v) ==
    IF axis.kind \in {"Std", "Ln"} THEN [err |-> "nil", axis |-> axis]
    ELSE LET q == IF axis.kind = "Scaled" THEN Quo(axis.Max, v)
                  ELSE QuoLog(axis.Max, Log(v))
         IN  [err |-> q.err, axis |-> [axis EXCEPT !.ratio = q.val]]

\* Axis.Point
Point(axis, p) ==
    IF axis.kind = "Std" THEN FloatOk(Float64(p))
    ELSE IF axis.kind = "Scaled" THEN Mul(p, axis.ratio)
    ELSE IF IsOrigin(p) THEN FloatOk(Fin(FALSE, 0, 1))
    ELSE IF axis.kind = "Ln" THEN Log(p)
    ELSE MulLog(Log(p), axis.ratio)

\* An axis as its caller built it, SetMaxValue not yet called.
FreshAxis(a) == [axis |-> a, with |-> NoFloat, state |-> "fresh"]

\* No Point call yet.
NoProjection == [p |-> NoFloat, res |-> FloatOk(NoRatio)]

-----------------------------------------------------------------------------
(* The sample set.                                                         *)

\* Insert callers (the driver runs Workers: 10 of them) and Insert calls.
NumWorkers == 2

MaxInserts == 3

\* len(set.ios) after NewValuesSet: make([]ioPair, 10).
InitialLen == 10

Workers == 1..NumWorkers

\* The PointsOn caller, as a holder of the read lock.
Plotter == "PointsOn"

\* The Values the driver inserts: 0, 1, 100, -2.5, -5 and an unencodable one.
VEmpty == <<>>

VOne == <<IntV(I64(1))>>

VByteD == <<U8(100)>>

VNegFloat == <<F64(TRUE, 640)>>

VNegFive == <<F64(TRUE, 1280)>>

VFunc == <<FuncV>>

Samples ==
    { [input |-> VByteD, output |-> VOne],
      [input |-> VOne, output |-> VByteD],
      [input |-> VEmpty, output |-> VEmpty],
      [input |-> VNegFloat, output |-> VOne],
      [input |-> VNegFive, output |-> VOne],
      [input |-> VFunc, output |-> VOne],
      [input |-> VOne, output |-> VFunc] }

\* The Max of the scaled axes a caller passes.
Targets == {8}

Axes == {StdAxis} \cup {ScaledAxis(t) : t \in Targets}

\* An unset *big.Float.
Nil == NoFloat

\* The zero ioPair.
ZeroPair == [input |-> <<>>, output |-> <<>>]

IdleWorker == [pc |-> "idle", input |-> <<>>, output |-> <<>>, idx |-> 0,
               in |-> Nil, out |-> Nil]

IdlePlotter == [pc |-> "idle", x |-> StdAxis, y |-> StdAxis, i |-> 0,
                points |-> <<>>, ret |-> "none"]

\* NewValuesSet, with no call under way.
SetInit ==
    /\ ios = [i \in 1..InitialLen |-> ZeroPair]
    /\ minInput = Nil
    /\ maxInput = Nil
    /\ minOutput = Nil
    /\ maxOutput = Nil
    /\ mu = [w |-> 0, r |-> {}]
    /\ wk = [w \in Workers |-> IdleWorker]
    /\ calls = [started |-> 0, ok |-> 0, failed |-> 0]
    /\ pl = IdlePlotter

\* A panic in PointsOn ends the program.
Running == pl.pc # "panicked"

CanLockAlways == TRUE

\* set.mu.Lock() can proceed.
CanLock == mu.w = 0 /\ mu.r = {}

\* set.mu.RLock() can proceed.
CanRLock == mu.w = 0

Step(w, pc) == wk' = [wk EXCEPT ![w].pc = pc]

At(w, pc) == Running /\ wk[w].pc = pc

\* set.mu.Lock(), on a call Insert(input, output)
InsertLock(w, s) ==
    /\ At(w, "idle")
    /\ calls.started < MaxInserts
    /\ CanLock
    /\ mu' = [mu EXCEPT !.w = w]
    /\ wk' = [wk EXCEPT ![w] = [IdleWorker EXCEPT !.pc = "append",
                                   !.input = s.input, !.output = s.output]]
    /\ calls' = [calls EXCEPT !.started = @ + 1]
    /\ UNCHANGED <<ios, minInput, maxInput, minOutput, maxOutput, pl>>

\* set.ios = append(set.ios, ioPair{input: input, output: output})
InsertAppend(w) ==
    /\ At(w, "append")
    /\ ios' = Append(ios, [input |-> wk[w].input, output |-> wk[w].output])
    /\ wk' = [wk EXCEPT ![w].pc = "scalarIn", ![w].idx = Len(ios) + 1]
    /\ UNCHANGED <<minInput, maxInput, minOutput, maxOutput, mu, calls, pl>>

\* return: the deferred set.mu.Unlock() runs.
Return(w, ret) ==
    /\ wk' = [wk EXCEPT ![w] = IdleWorker]
    /\ mu' = [mu EXCEPT !.w = IF @ = w THEN 0 ELSE @]
    /\ calls' = [calls EXCEPT !.ok = IF ret = "nil" THEN @ + 1 ELSE @,
                              !.failed = IF ret = "nil" THEN @ ELSE @ + 1]

\* in, err := input.Scalar(); if err != nil { return ... }
InsertScalarIn(w) ==
    /\ At(w, "scalarIn")
    /\ LET r == Scalar(wk[w].input)
       IN  IF r.err # "nil"
           THEN Return(w, r.err)
           ELSE /\ wk' = [wk EXCEPT ![w].pc = "minIn", ![w].in = r.val]
                /\ UNCHANGED <<mu, calls>>
    /\ UNCHANGED <<ios, minInput, maxInput, minOutput, maxOutput, pl>>

IsBelowNilOnly(cur, v) == cur = Nil

\* cur == nil || cur.Cmp(v) == 1
IsBelow(cur, v) == cur = Nil \/ Cmp(cur, v) = 1

\* cur == nil || cur.Cmp(v) == -1
IsAbove(cur, v) == cur = Nil \/ Cmp(cur, v) = -1

\* if set.minInput == nil || set.minInput.Cmp(in) == 1 {
InsertTestMinIn(w) ==
    /\ At(w, "minIn")
    /\ Step(w, IF IsBelow(minInput, wk[w].in) THEN "setMinIn" ELSE "maxIn")
    /\ UNCHANGED <<ios, minInput, maxInput, minOutput, maxOutput, mu, calls, pl>>

\* set.minInput = in
InsertSetMinIn(w) ==
    /\ At(w, "setMinIn")
    /\ minInput' = wk[w].in
    /\ Step(w, "maxIn")
    /\ UNCHANGED <<ios, maxInput, minOutput, maxOutput, mu, calls, pl>>

\* if set.maxInput == nil || set.maxInput.Cmp(in) == -1 {
InsertTestMaxIn(w) ==
    /\ At(w, "maxIn")
    /\ Step(w, IF IsAbove(maxInput, wk[w].in) THEN "setMaxIn" ELSE "scalarOut")
    /\ UNCHANGED <<ios, minInput, maxInput, minOutput, maxOutput, mu, calls, pl>>

\* set.maxInput = in
InsertSetMaxIn(w) ==
    /\ At(w, "setMaxIn")
    /\ maxInput' = wk[w].in
    /\ Step(w, "scalarOut")
    /\ UNCHANGED <<ios, minInput, minOutput, maxOutput, mu, calls, pl>>

\* out, err := output.Scalar(); if err != nil { return ... }
InsertScalarOut(w) ==
    /\ At(w, "scalarOut")
    /\ LET r == Scalar(wk[w].output)
       IN  IF r.err # "nil"
           THEN Return(w, r.err)
           ELSE /\ wk' = [wk EXCEPT ![w].pc = "minOut", ![w].out = r.val]
                /\ UNCHANGED <<mu, calls>>
    /\ UNCHANGED <<ios, minInput, maxInput, minOutput, maxOutput, pl>>

\* if set.minOutput == nil || set.minOutput.Cmp(out) == 1 {
InsertTestMinOut(w) ==
    /\ At(w, "minOut")
    /\ Step(w, IF IsBelow(minOutput, wk[w].out) THEN "setMinOut" ELSE "maxOut")
    /\ UNCHANGED <<ios, minInput, maxInput, minOutput, maxOutput, mu, calls, pl>>

\* set.minOutput = out
InsertSetMinOut(w) ==
    /\ At(w, "setMinOut")
    /\ minOutput' = wk[w].out
    /\ Step(w, "maxOut")
    /\ UNCHANGED <<ios, minInput, maxInput, maxOutput, mu, calls, pl>>

\* if set.maxOutput == nil || set.maxOutput.Cmp(out) == -1 {
InsertTestMaxOut(w) ==
    /\ At(w, "maxOut")
    /\ Step(w, IF IsAbove(maxOutput, wk[w].out) THEN "setMaxOut" ELSE "return")
    /\ UNCHANGED <<ios, minInput, maxInput, minOutput, maxOutput, mu, calls, pl>>

\* set.maxOutput = out
InsertSetMaxOut(w) ==
    /\ At(w, "setMaxOut")
    /\ maxOutput' = wk[w].out
    /\ Step(w, "return")
    /\ UNCHANGED <<ios, minInput, maxInput, minOutput, mu, calls, pl>>

\* return nil
InsertReturn(w) ==
    /\ At(w, "return")
    /\ Return(w, "nil")
    /\ UNCHANGED <<ios, minInput, maxInput, minOutput, maxOutput, pl>>

-----------------------------------------------------------------------------
(* PointsOn.                                                               *)

ZeroF == Fin(FALSE, 0, 1)

ZeroPoint == [X |-> ZeroF, Y |-> ZeroF]

LessY(p, q) == LessF(p.Y, q.Y)

\* sortablePoints.Less
Less(p, q) == LessF(p.X, q.X)

\* sortablePoints.Swap
Swap(sp, i, j) == [sp EXCEPT ![i] = sp[j], ![j] = sp[i]]

\* sort.Sort on a short slice: an insertion sort by Less and Swap.
RECURSIVE InsertDown(_, _)
InsertDown(sp, j) ==
    IF j > 1 /\ Less(sp[j], sp[j - 1]) THEN InsertDown(Swap(sp, j, j - 1), j - 1)
    ELSE sp

RECURSIVE SortFrom(_, _)
SortFrom(sp, i) ==
    IF i > Len(sp) THEN sp ELSE SortFrom(InsertDown(sp, i), i + 1)

Sort(sp) == SortFrom(sp, 2)

PlotAt(pc) == pl.pc = pc

\* The deferred set.mu.RUnlock() of a PointsOn that panics.
PlotPanic ==
    /\ pl' = [pl EXCEPT !.pc = "panicked", !.ret = "panic", !.points = <<>>]
    /\ mu' = [mu EXCEPT !.r = @ \ {Plotter}]

\* set.mu.RLock(), on a call PointsOn(x, y)
PlotLock(x, y) ==
    /\ PlotAt("idle")
    /\ CanRLock
    /\ mu' = [mu EXCEPT !.r = @ \cup {Plotter}]
    /\ pl' = [IdlePlotter EXCEPT !.pc = "calX", !.x = x, !.y = y]
    /\ UNCHANGED <<ios, minInput, maxInput, minOutput, maxOutput, wk, calls>>

\* x.SetMaxValue(set.maxInput)
PlotCalibrateX ==
    /\ PlotAt("calX")
    /\ LET r == SetMaxValue(pl.x, maxInput)
       IN  IF r.err # "nil" THEN PlotPanic
           ELSE /\ pl' = [pl EXCEPT !.pc = "calY", !.x = r.axis]
                /\ UNCHANGED mu
    /\ UNCHANGED <<ios, minInput, maxInput, minOutput, maxOutput, wk, calls>>

\* y.SetMaxValue(set.maxOutput)
PlotCalibrateY ==
    /\ PlotAt("calY")
    /\ LET r == SetMaxValue(pl.y, maxOutput)
       IN  IF r.err # "nil" THEN PlotPanic
           ELSE /\ pl' = [pl EXCEPT !.pc = "make", !.y = r.axis]
                /\ UNCHANGED mu
    /\ UNCHANGED <<ios, minInput, maxInput, minOutput, maxOutput, wk, calls>>

\* points := make(plotter.XYs, len(set.ios))
PlotMake ==
    /\ PlotAt("make")
    /\ pl' = [pl EXCEPT !.pc = "loop", !.i = 1,
                        !.points = [k \in 1..Len(ios) |-> ZeroPoint]]
    /\ UNCHANGED <<ios, minInput, maxInput, minOutput, maxOutput, mu, wk, calls>>

\* One turn of the loop over set.ios: the scalars of sample i, projected.
PlotProject ==
    /\ PlotAt("loop")
    /\ pl.i <= Len(pl.points)
    /\ LET in == Scalar(ios[pl.i].input)
           out == Scalar(ios[pl.i].output)
           px == Point(pl.x, in.val)
           py == Point(pl.y, out.val)
       IN  IF in.err = "panic" THEN PlotPanic
           ELSE IF in.err # "nil"
               THEN /\ pl' = [pl EXCEPT !.pc = "ret", !.ret = "error", !.points = <<>>]
                    /\ UNCHANGED mu
           ELSE IF px.err # "nil" THEN PlotPanic
           ELSE IF out.err = "panic" THEN PlotPanic
           ELSE IF out.err # "nil"
               THEN /\ pl' = [pl EXCEPT !.pc = "ret", !.ret = "error", !.points = <<>>]
                    /\ UNCHANGED mu
           ELSE IF py.err # "nil" THEN PlotPanic
           ELSE /\ pl' = [pl EXCEPT !.i = @ + 1,
                                   !.points[pl.i] = [X |-> px.val, Y |-> py.val]]
                /\ UNCHANGED mu
    /\ UNCHANGED <<ios, minInput, maxInput, minOutput, maxOutput, wk, calls>>

\* sort.Sort(sortablePoints(points)); return points, nil
PlotSort ==
    /\ PlotAt("loop")
    /\ pl.i > Len(pl.points)
    /\ pl' = [pl EXCEPT !.pc = "ret", !.ret = "nil", !.points = Sort(pl.points)]
    /\ UNCHANGED <<ios, minInput, maxInput, minOutput, maxOutput, mu, wk, calls>>

\* The deferred set.mu.RUnlock(); the caller takes the result.
PlotReturn ==
    /\ PlotAt("ret")
    /\ mu' = [mu EXCEPT !.r = @ \ {Plotter}]
    /\ pl' = IdlePlotter
    /\ UNCHANGED <<ios, minInput, maxInput, minOutput, maxOutput, wk, calls>>

-----------------------------------------------------------------------------
(* The scalar specification: one conversion of one Values.                 *)

Pending == ScalarErr("pending")

\* The longest Values built from SeqElems.
MaxLen == 3

TestBytes == <<116, 101, 115, 116>>

\* []byte("test")
TestSlice == SliceV(<<U8(116), U8(101), U8(115), U8(116)>>)

\* The int and uint values converted: around every width's limits.
IntImages ==
    { I64(0), I64(1), I64(123), I64(127), I64(128), I64(255), I64(256),
      I64(32767), I64(32768), I64(65535), I64(65536),
      <<0, 0, 0, 0, 127, 255, 255, 255>>, <<0, 0, 0, 0, 128, 0, 0, 0>>,
      <<0, 0, 0, 0, 255, 255, 255, 255>>, <<0, 0, 0, 1, 0, 0, 0, 0>>,
      <<127, 255, 255, 255, 255, 255, 255, 255>>,
      NegI64(1), NegI64(128), NegI64(129), NegI64(32768), NegI64(32769),
      <<255, 255, 255, 255, 128, 0, 0, 0>>, <<255, 255, 255, 255, 127, 255, 255, 255>>,
      <<128, 0, 0, 0, 0, 0, 0, 0>> }

UintImages ==
    { I64(0), I64(255), I64(256), I64(65535), I64(65536),
      <<0, 0, 0, 0, 255, 255, 255, 255>>, <<0, 0, 0, 1, 0, 0, 0, 0>>,
      <<128, 0, 0, 0, 0, 0, 0, 0>>, <<255, 255, 255, 255, 255, 255, 255, 255>> }

Floats ==
    { F64(FALSE, 0), F64(FALSE, 128), F64(FALSE, 31616), F64(TRUE, 640),
      F32(FALSE, 384), F32(TRUE, 31616), F64Inf(FALSE), F64Inf(TRUE), F64NaN }

\* Every element converted alone.
Elems ==
    {InvalidValue, FuncV, PtrV(InvalidValue)}
    \cup {U8(0), U8(100), [kind |-> "bool", b |-> 1]}
    \cup {SliceV(<<>>), TestSlice, StrV(<<>>), StrV(TestBytes)}
    \cup {RuneV(0, 0, 0, 100), RuneV(0, 0, 0, 230), RuneV(0, 0, 216, 0),
          RuneV(0, 0, 32, 172), RuneV(0, 1, 244, 0), RuneV(255, 255, 255, 255)}
    \cup {MapV(<< <<StrV(<<97>>), IntV(I64(1))>> >>),
          MapV(<< <<StrV(<<97>>), IntV(I64(1))>>, <<StrV(<<98>>), IntV(I64(2))>> >>),
          MapV(<< <<StrV(<<98>>), IntV(I64(2))>>, <<StrV(<<97>>), IntV(I64(1))>> >>),
          SliceV(<<IntV(I64(256)), InvalidValue, StrV(<<97>>)>>)}
    \cup {IntV(x) : x \in IntImages}
    \cup {UintV(x) : x \in UintImages}
    \cup Floats
    \cup {PtrV(f) : f \in Floats}
    \cup {PtrV(PtrV(F32(FALSE, 384))), PtrV(StrV(TestBytes))}

\* The elements longer Values are built from.
SeqElems ==
    { InvalidValue, StrV(TestBytes), U8(100), U8(0), IntV(I64(256)),
      F64(FALSE, 384), FuncV }

RECURSIVE SeqsUpTo(_, _)
SeqsUpTo(S, n) ==
    IF n = 0 THEN {<<>>}
    ELSE LET shorter == SeqsUpTo(S, n - 1)
         IN  shorter \cup {Append(q, e) : q \in shorter, e \in S}

ValuesDomain == {<<e>> : e \in Elems} \cup SeqsUpTo(SeqElems, MaxLen)

ScalarInit ==
    /\ SetInit
    /\ sv \in ValuesDomain
    /\ sres = Pending
    /\ lax = FreshAxis(StdAxis)
    /\ lpt = NoProjection

\* s, err := values.Scalar()
Convert ==
    /\ sres = Pending
    /\ sres' = Scalar(sv)
    /\ UNCHANGED <<sv, setVars, lax, lpt>>

ScalarNext == Convert

ScalarSpec == ScalarInit /\ [][ScalarNext]_vars

-----------------------------------------------------------------------------
(* The axis specification: one axis, calibrated and projected through by   *)
(* its caller.                                                             *)

\* The Max of the logarithmic scaled axes a caller passes.
LnTargets == {0, 8}

LnAxes == {LnAxis} \cup {LnScaledAxis(t) : t \in LnTargets}

\* The maxima a caller calibrates with: none, 0, 1/2, 1, 2, 100, -2.5, +Inf.
AxisMaxima ==
    {Nil} \cup {Scalar(vs).val : vs \in
                  { <<>>, <<F64(FALSE, 128)>>, <<IntV(I64(1))>>, <<U8(2)>>, <<U8(100)>>,
                    <<F64(TRUE, 640)>>, <<F64Inf(FALSE)>> }}

\* The scalars a caller projects: 0, -0, 1/2, 1, 2, 100, -2.5, +Inf.
AxisPoints ==
    {Scalar(vs).val : vs \in
        { <<>>, <<F64(TRUE, 0)>>, <<F64(FALSE, 128)>>, <<IntV(I64(1))>>, <<U8(2)>>,
          <<U8(100)>>, <<F64(TRUE, 640)>>, <<F64Inf(FALSE)>> }}

AxisInit ==
    /\ SetInit
    /\ sv = <<>>
    /\ sres = Pending
    /\ lax \in {FreshAxis(a) : a \in LnAxes}
    /\ lpt = NoProjection

AxisRunning == lax.state # "panicked" /\ lpt.res.err # "panic"

\* axis.SetMaxValue(v)
Calibrate(v) ==
    /\ AxisRunning
    /\ LET r == SetMaxValue(lax.axis, v)
       IN  lax' = [axis |-> r.axis, with |-> v,
                   state |-> IF r.err = "nil" THEN "calibrated" ELSE "panicked"]
    /\ UNCHANGED <<lpt, sv, sres, setVars>>

\* axis.Point(p)
Project(p) ==
    /\ AxisRunning
    /\ lpt' = [p |-> p, res |-> Point(lax.axis, p)]
    /\ UNCHANGED <<lax, sv, sres, setVars>>

AxisNext ==
    \/ \E v \in AxisMaxima : Calibrate(v)
    \/ \E p \in AxisPoints : Project(p)

AxisSpec == AxisInit /\ [][AxisNext]_vars

Init ==
    /\ SetInit
    /\ sv = <<>>
    /\ sres = Pending
    /\ lax = FreshAxis(StdAxis)
    /\ lpt = NoProjection

Next ==
    \/ \E w \in Workers, s \in Samples : InsertLock(w, s) /\ UNCHANGED <<sv, sres, lax, lpt>>
    \/ \E w \in Workers : InsertAppend(w) /\ UNCHANGED <<sv, sres, lax, lpt>>
    \/ \E w \in Workers : InsertScalarIn(w) /\ UNCHANGED <<sv, sres, lax, lpt>>
    \/ \E w \in Workers : InsertTestMinIn(w) /\ UNCHANGED <<sv, sres, lax, lpt>>
    \/ \E w \in Workers : InsertSetMinIn(w) /\ UNCHANGED <<sv, sres, lax, lpt>>
    \/ \E w \in Workers : InsertTestMaxIn(w) /\ UNCHANGED <<sv, sres, lax, lpt>>
    \/ \E w \in Workers : InsertSetMaxIn(w) /\ UNCHANGED <<sv, sres, lax, lpt>>
    \/ \E w \in Workers : InsertScalarOut(w) /\ UNCHANGED <<sv, sres, lax, lpt>>
    \/ \E w \in Workers : InsertTestMinOut(w) /\ UNCHANGED <<sv, sres, lax, lpt>>
    \/ \E w \in Workers : InsertSetMinOut(w) /\ UNCHANGED <<sv, sres, lax, lpt>>
    \/ \E w \in Workers : InsertTestMaxOut(w) /\ UNCHANGED <<sv, sres, lax, lpt>>
    \/ \E w \in Workers : InsertSetMaxOut(w) /\ UNCHANGED <<sv, sres, lax, lpt>>
    \/ \E w \in Workers : InsertReturn(w) /\ UNCHANGED <<sv, sres, lax, lpt>>
    \/ \E x \in Axes, y \in Axes : PlotLock(x, y) /\ UNCHANGED <<sv, sres, lax, lpt>>
    \/ PlotCalibrateX /\ UNCHANGED <<sv, sres, lax, lpt>>
    \/ PlotCalibrateY /\ UNCHANGED <<sv, sres, lax, lpt>>
    \/ PlotMake /\ UNCHANGED <<sv, sres, lax, lpt>>
    \/ PlotProject /\ UNCHANGED <<sv, sres, lax, lpt>>
    \/ PlotSort /\ UNCHANGED <<sv, sres, lax, lpt>>
    \/ PlotReturn /\ UNCHANGED <<sv, sres, lax, lpt>>

Spec == Init /\ [][Next]_vars

-----------------------------------------------------------------------------
(* Properties of Values.Scalar (ScalarSpec).                               *)

Converted == sres # Pending

FloatKinds == {"float32", "float64"}

\* A Values of one floating-point element, direct or behind pointers.
SingleFloat(vs) == Len(vs) = 1 /\ indirect(vs[1]).kind \in FloatKinds

\* A map's entries in a row: key, value, key, value, ...
RECURSIVE KeysAndValues(_)
KeysAndValues(entries) ==
    IF entries = <<>> THEN <<>>
    ELSE <<entries[1][1], entries[1][2]>> \o KeysAndValues(Tail(entries))

\* The encoding the specification gives each kind of element.
RECURSIVE EncodingOf(_)
RECURSIVE EncodingOfAll(_)
EncodingOfAll(vs) ==
    IF vs = <<>> THEN <<>> ELSE EncodingOf(vs[1]) \o EncodingOfAll(Tail(vs))

EncodingOf(v) ==
    IF v.kind = "invalid" THEN <<>>
    ELSE IF v.kind = "ptr" THEN EncodingOf(v.elem)
    ELSE IF v.kind = "uint8" THEN v.img
    ELSE IF v.kind = "string" THEN v.bs
    ELSE IF v.kind = "int32"
        THEN (IF v.img[1] = 0 THEN EncodeRune(BytesNat(Tail(v.img))) ELSE RuneError)
    ELSE IF v.kind = "slice" THEN EncodingOfAll(v.elems)
    ELSE IF v.kind = "map"
        THEN EncodingOfAll(KeysAndValues(v.entries))
    ELSE writeBinary(<<>>, v).buf

\* The big.Float of a natural given by its digits.
NatFloat(digits) ==
    [form |-> "finite", neg |-> FALSE, int |-> StripZeros(digits), frac |-> 0]

IsNull(v) == v.kind = "invalid"

WithoutNulls(vs) == SelectSeq(vs, LAMBDA v : ~IsNull(v))

\* C7, as claimed: the scalar of every Values is the scalar of the Values
\* with its null elements removed, whatever the other elements are.
NullsNeverCount ==
    Converted => sres = Scalar(WithoutNulls(sv))

\* C7, amended: the empty Values scalarizes to 0, and the scalar of a Values
\* is the scalar of the Values with its null elements removed, unless
\* removing them leaves a single floating-point element.
NullsContributeNothing ==
    Converted =>
        /\ sv = <<>> => sres = ScalarOk(ZeroFloat)
        /\ ~SingleFloat(WithoutNulls(sv)) => sres = Scalar(WithoutNulls(sv))

\* nil, "test", nil converted to the scalar of "test".
NullsSkipped ==
    /\ sv = <<InvalidValue, StrV(TestBytes), InvalidValue>>
    /\ sres = ScalarOk(NatFloat(TestBytes))

\* The big.Float equal to a float that is not a NaN.
FloatValue(v) ==
    IF v.class = "inf" THEN [form |-> "inf", neg |-> v.neg, int |-> <<>>, frac |-> 0]
    ELSE [form |-> "finite", neg |-> v.neg,
          int |-> NatBytes(v.units \div 256), frac |-> v.units % 256]

\* C8: a Values of one 32- or 64-bit floating-point element, direct or behind
\* pointers, scalarizes to that float exactly, never to the integer read
\* from its bytes.
SingleFloatReturned ==
    (Converted /\ SingleFloat(sv)) =>
        /\ sres.err = "nil"
        /\ sres.val = FloatValue(indirect(sv[1]))

RECURSIVE Repeat(_, _)
Repeat(b, n) == IF n = 0 THEN <<>> ELSE <<b>> \o Repeat(b, n - 1)

\* The w low bytes of the 64-bit image x hold x exactly: extended back to 64
\* bits (by the sign when signed, by zeros when not) they give x.
FitsIn(x, w, signed) ==
    LET low == SubSeq(x, 9 - w, 8)
        fill == IF signed /\ low[1] >= 128 THEN 255 ELSE 0
    IN  Repeat(fill, 8 - w) \o low = x

Widths == {1, 2, 4, 8}

-----------------------------------------------------------------------------
(* Properties of the sample set (Spec).                                    *)

Busy(w) == wk[w].pc # "idle"

\* No Insert is under way.
Quiescent == \A w \in Workers : ~Busy(w)

\* The places in ios of the samples that Insert appended.
Inserted == (InitialLen + 1)..Len(ios)

Convertible(s) == Scalar(s.input).err = "nil" /\ Scalar(s.output).err = "nil"

InputOf(i) == Scalar(ios[i].input).val

OutputOf(i) == Scalar(ios[i].output).val

\* The call of worker w is one that fails.
Failing(w) ==
    Busy(w) /\ ~Convertible([input |-> wk[w].input, output |-> wk[w].output])

\* C1: an Insert that fails on the conversion of its input, or of its output,
\* changes neither the stored samples nor any of the four extrema, and
\* returns the error.
FailedInsertChangesNothing ==
    [][\A w \in Workers : Failing(w) =>
          /\ ios' = ios
          /\ minInput' = minInput /\ maxInput' = maxInput
          /\ minOutput' = minOutput /\ maxOutput' = maxOutput
          /\ ~Busy(w)' => calls'.failed = calls.failed + 1]_vars

IsMinOf(m, S) == m \in S /\ \A v \in S : Cmp(m, v) <= 0

IsMaxOf(m, S) == m \in S /\ \A v \in S : Cmp(m, v) >= 0

\* C2: once the Insert calls of any number of workers, all of convertible
\* samples, have returned, in whatever order they ran, the extrema are the
\* least and the greatest scalar of the inserted inputs and outputs.
ExtremaAreGlobal ==
    (Quiescent /\ Inserted # {} /\ \A i \in Inserted : Convertible(ios[i])) =>
        /\ IsMinOf(minInput, {InputOf(i) : i \in Inserted})
        /\ IsMaxOf(maxInput, {InputOf(i) : i \in Inserted})
        /\ IsMinOf(minOutput, {OutputOf(i) : i \in Inserted})
        /\ IsMaxOf(maxOutput, {OutputOf(i) : i \in Inserted})

\* Three samples inserted, all converted, with distinct least and greatest
\* inputs and outputs.
ThreeInserted ==
    /\ Quiescent
    /\ calls.ok = 3
    /\ Cmp(minInput, maxInput) = -1
    /\ Cmp(minOutput, maxOutput) = -1

\* PointsOn has its result, no error.
Plotted == pl.pc = "ret" /\ pl.ret = "nil"

\* C3: after N >= 1 Insert calls have returned nil the set stores N samples,
\* and PointsOn returns N points.
SizeIsInsertCount ==
    /\ (Quiescent /\ calls.ok >= 1) => Len(ios) = calls.ok
    /\ (Plotted /\ calls.ok >= 1) => Len(pl.points) = calls.ok

\* The Insert that appended ios[i] has returned.
Completed(i) == \A w \in Workers : Busy(w) => wk[w].idx # i

BoundsHold ==
    \A i \in Inserted : (Completed(i) /\ Convertible(ios[i])) =>
        /\ minInput # Nil /\ maxInput # Nil /\ minOutput # Nil /\ maxOutput # Nil
        /\ Cmp(minInput, InputOf(i)) <= 0 /\ Cmp(InputOf(i), maxInput) <= 0
        /\ Cmp(minOutput, OutputOf(i)) <= 0 /\ Cmp(OutputOf(i), maxOutput) <= 0

UnsetBeforeFirst ==
    calls.started = 0 =>
        minInput = Nil /\ maxInput = Nil /\ minOutput = Nil /\ maxOutput = Nil

NeverAbove(old, new) == old # Nil => (new # Nil /\ Cmp(new, old) <= 0)

NeverBelow(old, new) == old # Nil => (new # Nil /\ Cmp(new, old) >= 0)

\* C4: every sample whose Insert has returned nil lies within the extrema;
\* the extrema are unset until the first Insert, and afterwards the minima
\* never rise and the maxima never fall.
BoundsInvariant ==
    /\ [](BoundsHold /\ UnsetBeforeFirst)
    /\ [][/\ NeverAbove(minInput, minInput') /\ NeverBelow(maxInput, maxInput')
          /\ NeverAbove(minOutput, minOutput')
          /\ NeverBelow(maxOutput, maxOutput')]_vars

\* Two samples inserted, the second widening the bounds of the first.
BoundsWidened ==
    /\ Quiescent
    /\ calls.ok = 2
    /\ Cmp(minInput, maxInput) = -1
    /\ Cmp(minOutput, maxOutput) = -1

\* The stored samples projected through the axes of the call, in ios order.
Projections ==
    [i \in 1..Len(ios) |-> [X |-> Point(pl.x, InputOf(i)).val,
                            Y |-> Point(pl.y, OutputOf(i)).val]]

Count(sp, p) == Cardinality({i \in 1..Len(sp) : sp[i] = p})

IsPermutation(a, b) ==
    /\ Len(a) = Len(b)
    /\ \A i \in 1..Len(a) : Count(a, a[i]) = Count(b, a[i])

\* C5: the points PointsOn returns are in ascending order of X and are a
\* permutation of the projections of the stored samples.
PointsSortedByX ==
    Plotted =>
        /\ \A i \in 1..(Len(pl.points) - 1) :
              ~LessF(pl.points[i + 1].X, pl.points[i].X)
        /\ IsPermutation(pl.points, Projections)

\* PointsOn returned points that the sort had to reorder.
PointsReordered ==
    /\ Plotted
    /\ calls.ok >= 2
    /\ pl.points # Projections

\* v is t up to the rounding of Quo and Mul.
Near(v, t) ==
    /\ v.form = "finite"
    /\ LET d == (IF v.neg THEN 0 - v.num ELSE v.num) - t * v.den
           a == IF d < 0 THEN 0 - d ELSE d
       IN  a * Pow2(ModelPrec - 2) <= t * v.den

HitsTarget(axis, m) ==
    LET r == Point(axis, m)
    IN  r.err = "nil" /\ Near(r.val, axis.Max)

\* C10: a Scaled axis that PointsOn has calibrated with the maximum M of the
\* set sends M to its target, up to rounding.
ScaledMaxHitsTarget ==
    /\ (pl.pc \in {"calY", "make", "loop", "ret"} /\ pl.x.kind = "Scaled"
          /\ maxInput # Nil) => HitsTarget(pl.x, maxInput)
    /\ (pl.pc \in {"make", "loop", "ret"} /\ pl.y.kind = "Scaled"
          /\ maxOutput # Nil) => HitsTarget(pl.y, maxOutput)

-----------------------------------------------------------------------------
(* Properties of the logarithmic axes (AxisSpec).                          *)

Projected == lpt # NoProjection

\* C11: an Ln or LnScaled axis sends 0 to 0, never to negative infinity,
\* whatever maximum it was calibrated with (0 and 1 among them) and also when
\* it was not calibrated.
ZeroProjectsToZero ==
    (Projected /\ IsZero(lpt.p)) =>
        /\ lpt.res = FloatOk(Fin(FALSE, 0, 1))
        /\ lpt.res.val # Inf(TRUE)

\* An LnScaled axis calibrated with the maximum 1, its ratio +Inf, has
\* projected 0.
ZeroOnInfiniteRatio ==
    /\ lax.axis.kind = "LnScaled"
    /\ lax.state = "calibrated"
    /\ lax.with = Scalar(<<IntV(I64(1))>>).val
    /\ lax.axis.ratio = Inf(FALSE)
    /\ lpt = [p |-> ZeroFloat, res |-> FloatOk(Fin(FALSE, 0, 1))]

-----------------------------------------------------------------------------
(* Properties of calibration in PointsOn (Spec).                           *)

\* A PointsOn call is under way, before and after the step.
Plotting == pl.pc # "idle" /\ pl'.pc # "idle"

\* The samples the call has projected so far.
ProjectedSoFar == IF pl.pc = "loop" THEN 1..(pl.i - 1) ELSE {}

\* Within a call SetMaxValue runs once on x, with maxInput, then once on y,
\* with maxOutput, and no point is projected before both have run.
CalibratesOnceFirst ==
    Plotting =>
        /\ pl'.pc = "calX" => pl.pc = "calX"
        /\ pl'.pc = "calY" => pl.pc \in {"calX", "calY"}
        /\ pl'.x # pl.x =>
              pl.pc = "calX" /\ pl'.x = SetMaxValue(pl.x, maxInput).axis
        /\ pl'.y # pl.y =>
              pl.pc = "calY" /\ pl'.y = SetMaxValue(pl.y, maxOutput).axis
        /\ (pl.pc = "calX" /\ pl'.pc # "calX") => pl'.pc \in {"calY", "panicked"}
        /\ (pl.pc = "calY" /\ pl'.pc # "calY") => pl'.pc \in {"make", "panicked"}
        /\ pl'.points # pl.points => pl.pc \in {"make", "loop"}

\* No Insert changes the sample list or the extrema during a call.
StableWhilePlotting ==
    Plotting => UNCHANGED <<ios, minInput, maxInput, minOutput, maxOutput>>

\* The maxima the axes were calibrated with are at least the scalars of the
\* samples projected.
MaximaCoverProjected ==
    \A i \in ProjectedSoFar :
        /\ maxInput # Nil /\ Cmp(maxInput, InputOf(i)) >= 0
        /\ maxOutput # Nil /\ Cmp(maxOutput, OutputOf(i)) >= 0

\* The part of C12 about the order of the steps and the lock.
CalibrationIsOrdered ==
    [][CalibratesOnceFirst /\ StableWhilePlotting]_vars

\* C12: in every PointsOn call the x axis is calibrated with maxInput and the
\* y axis with maxOutput, once each and before any point is projected; no
\* Insert changes the sample list or the extrema until the call returns; and
\* the maxima used are at least the scalar of every sample the call projects.
CalibratedWithTrueMaximum ==
    /\ [][CalibratesOnceFirst /\ StableWhilePlotting]_vars
    /\ []MaximaCoverProjected

-----------------------------------------------------------------------------
(* Properties of the scaled projection (Spec).                             *)

\* The coordinate c is at most the Max of the axis.
AtMostTarget(axis, c) == ~LessF(Fin(FALSE, axis.Max, 1), c)

\* C13: for a sample set with at least one inserted sample, every coordinate
\* that PointsOn returns on a Scaled axis of target > 0 is at most the
\* target, whatever the signs and magnitudes of the sample scalars.
ScaledIsBounded ==
    (Plotted /\ Inserted # {}) =>
        \A i \in 1..Len(pl.points) :
            /\ (pl.x.kind = "Scaled" /\ pl.x.Max > 0) => AtMostTarget(pl.x, pl.points[i].X)
            /\ (pl.y.kind = "Scaled" /\ pl.y.Max > 0) => AtMostTarget(pl.y, pl.points[i].Y)

=============================================================================
